---- MODULE Spec2Model ----
(***************************************************************************)
(* Model of the Wolt disabled-items monitor (src/index.js): the scrape     *)
(* loop doScrape with its timers, the failure escalation (soft reload,     *)
(* restartBrowser), the login-alert latch, the tabular sink throttle       *)
(* sendToAppsScript, startup (main) and the magic-link handler.            *)
(*                                                                         *)
(* Every await of the source is a suspension point: a tick instance sits   *)
(* at pc[t] until the awaited browser operation resolves or rejects, and   *)
(* the synchronous code up to the next await is one action.                *)
(***************************************************************************)
EXTENDS Integers, Sequences, FiniteSets, TLC

\* ---------------------------------------------------------------- bounds
\* Total number of doScrape invocations in a run.
MaxScrapes == 6
\* Clock units that pass in a run after process start.
MaxClock == 2
\* Number of magic-link requests in a run.
MaxAuth == 1
\* Number of times in a run a tick begins while another is in flight.
MaxOverlaps == 1

\* Longest record list handed to the fingerprint on its own.
MaxHashLen == 2

\* Longest page URL, in path parts, shown to checkLoginStatus on its own.
MaxUrlLen == 2

\* Most rows of a document given to scrapeDisabledItems on its own.
MaxRows == 2

\* Most calls of sendToAppsScript, and of sendWhatsAppAlert, in a run of the
\* function on its own.
MaxCalls == 2

\* Largest content height the page reports to scrollToLoadAll on its own, and
\* the lowest position the scrolled region can reach, in scroll steps.
MaxHeight == 2
MaxDepth == 2
\* Most recipients the contacts file holds
MaxContacts == 2

\* ------------------------------------------------------------- constants
\* `for (let i = 0; i < 25; i++)`
ScrollCap == 25
\* `if (sameCount >= 3) break;`
SameLimit == 3
\* `window.scrollBy(0, 800)`, `container.scrollTop += 800`
ScrollBy == 800
\* `if (scrapeErrors >= 5)`
ErrorThreshold == 5
\* `if (totalScrapes % 5 === 0)`
ScrollEvery == 5
\* CONFIG.SHEET_SEND_INTERVAL (parseInt(env) || 300000), in clock units.
SHEET_SEND_INTERVAL == 2

\* doScrape invocations that can be in flight at once.
Slots == 1..(MaxOverlaps + 1)

\* Date.now() at process start is far beyond SHEET_SEND_INTERVAL.
StartTime == SHEET_SEND_INTERVAL
MaxTime == StartTime + MaxClock

\* Values CONFIG.APPS_SCRIPT_URL can take: unset (''), a URL that parses,
\* a non-empty string that `new URL` rejects.
SinkUrls == {"unset", "ok", "malformed"}

\* ------------------------------------------------------- extracted records
\* A JavaScript string is the sequence of its UTF-16 code units, each written
\* as a one-character string; CodeUnit gives the unit's number.
CodeUnit(c) ==
    CASE c = " " -> 32
      [] c = "," -> 44
      [] c = ":" -> 58
      [] c = "C" -> 67
      [] c = "P" -> 80
      [] c = "a" -> 97
      [] c = "e" -> 101
      [] c = "i" -> 105
      [] c = "m" -> 109
      [] c = "n" -> 110
      [] c = "o" -> 111
      [] c = "p" -> 112
      [] c = "t" -> 116

\* The two values of a record's `type` (lines 307 and 336), as strings.
TypeString(type) ==
    IF type = "item" THEN <<"i", "t", "e", "m">>
    ELSE <<"o", "p", "t", "i", "o", "n">>

Pizza == [type |-> "item", name |-> <<"P">>]
Cola == [type |-> "option", name |-> <<"C">>]
\* Results scrapeDisabledItems can return (document order).
Snapshots == {<<>>, <<Pizza>>, <<Cola, Pizza>>}

\* The template string `${i.type}:${i.name}`.
Key(i) == TypeString(i.type) \o <<":">> \o i.name

\* items.map(i => `${i.type}:${i.name}`)
RECURSIVE Keys(_)
Keys(items) ==
    IF items = <<>> THEN <<>> ELSE <<Key(Head(items))>> \o Keys(Tail(items))

\* The default comparison of Array.prototype.sort: strings by code unit, a
\* proper prefix first. KeyRank(x, y) is "x sorts at or before y".
RECURSIVE KeyRank(_, _)
KeyRank(x, y) ==
    IF x = <<>> THEN TRUE
    ELSE IF y = <<>> THEN FALSE
    ELSE IF CodeUnit(Head(x)) # CodeUnit(Head(y))
         THEN CodeUnit(Head(x)) < CodeUnit(Head(y))
    ELSE KeyRank(Tail(x), Tail(y))

RECURSIVE Insert(_, _)
Insert(k, s) ==
    IF s = <<>> THEN <<k>>
    ELSE IF KeyRank(k, Head(s)) THEN <<k>> \o s
    ELSE <<Head(s)>> \o Insert(k, Tail(s))

\* .sort() (the variant: the array left in document order)
KeepOrder(s) == s
RECURSIVE SortKeys(_)
SortKeys(s) == IF s = <<>> THEN <<>> ELSE Insert(Head(s), SortKeys(Tail(s)))

\* hash = JSON.stringify(items.map(i => `${i.type}:${i.name}`).sort())
\* The stringified array is written <<"json", keys>>; '' is NoHash.
HashOf(items) == <<"json", SortKeys(Keys(items))>>
NoHash == <<>>

VARIABLES
    main,                   \* position of main(): "boot", "check", "running", "fatal"
    browser,                \* state of the handle held by `browser`
    page,                   \* state of the handle held by `page`
    session,                \* what the site would show: "auth" or "expired"
    sinkUrl,                \* CONFIG.APPS_SCRIPT_URL
    isLoggedIn,
    lastScrapeTime,         \* 0 is null
    lastSendTime,           \* 0 is null
    lastSentHash,
    lastSheetSendTimestamp,
    lastItems,
    scrapeErrors,
    totalScrapes,
    loginAlertSent,
    scrapeInterval,         \* 0 is null, otherwise the id of the last setInterval
    activeIntervals,        \* ids of the interval timers that are armed
    timeouts,               \* pending setTimeout(doScrape, 5000) one-shots
    cookieFile,             \* content of COOKIE_PATH: "none" or the session saved
    now,                    \* Date.now() when it was last read
    pc,                     \* position of each doScrape invocation
    mpc,                    \* position of the /auth/magic-link handler
    authRequests,           \* magic-link requests so far
    prevExpired,            \* the latest tick to finish its login check found Expired
    alerted,                \* a missing-login alert was sent since last observed Authenticated
    overlaps,               \* ticks begun while another was in flight
    tickWrote,              \* the tick in flight changed the snapshot or reset a non-zero counter
    out,                    \* what the last step handed to the sinks
    fn,                     \* the function applied on its own ("none": the monitor runs)
    arg,                    \* its argument: what the page shows it
    ret                     \* its locals and, once it has returned, its result

vars == <<main, browser, page, session, sinkUrl, isLoggedIn, lastScrapeTime,
          lastSendTime, lastSentHash, lastSheetSendTimestamp, lastItems,
          scrapeErrors, totalScrapes, loginAlertSent, scrapeInterval,
          activeIntervals, timeouts, cookieFile, now, pc, mpc, authRequests,
          prevExpired, alerted, overlaps, tickWrote, out, fn, arg, ret>>

timerVars == <<scrapeInterval, activeIntervals, timeouts>>
sinkVars == <<lastSendTime, lastSentHash, lastSheetSendTimestamp>>
snapVars == <<lastScrapeTime, lastItems>>
alertVars == <<prevExpired, alerted>>
runVars == <<authRequests, overlaps, tickWrote>>
loginVars == <<isLoggedIn, loginAlertSent>>
handleVars == <<browser, page>>
fnVars == <<fn, arg, ret>>
\* The state of the monitor: every variable of src/index.js and of its run.
monitorVars == <<main, browser, page, session, sinkUrl, isLoggedIn,
                 lastScrapeTime, lastSendTime, lastSentHash,
                 lastSheetSendTimestamp, lastItems, scrapeErrors, totalScrapes,
                 loginAlertSent, scrapeInterval, activeIntervals, timeouts,
                 cookieFile, now, pc, mpc, authRequests, prevExpired, alerted,
                 overlaps, tickWrote, out>>

\* What the last step handed to the sinks. sink: the outcome of its
\* sendToAppsScript call ("none": no call); alert: the message of its
\* sendWhatsAppAlert call ("none": no call).
Out(s, a) == [sink |-> s, alert |-> a]
NoOut == Out("none", "none")

\* ------------------------------------------------------------------ Init
\* The module-level state of src/index.js when main() is called.
MonitorInit ==
    /\ main = "boot"
    /\ browser = "null"
    /\ page = "null"
    /\ session \in {"auth", "expired"}
    /\ sinkUrl \in SinkUrls
    /\ isLoggedIn = FALSE
    /\ lastScrapeTime = 0
    /\ lastSendTime = 0
    /\ lastSentHash = NoHash
    /\ lastSheetSendTimestamp = 0
    /\ lastItems = <<>>
    /\ scrapeErrors = 0
    /\ totalScrapes = 0
    /\ loginAlertSent = FALSE
    /\ scrapeInterval = 0
    /\ activeIntervals = {}
    /\ timeouts = 0
    /\ cookieFile = "none"
    /\ now = StartTime
    /\ pc = [t \in Slots |-> "idle"]
    /\ mpc = "idle"
    /\ authRequests = 0
    /\ prevExpired = FALSE
    /\ alerted = FALSE
    /\ overlaps = 0
    /\ tickWrote = [t \in Slots |-> FALSE]
    /\ out = NoOut

Init ==
    /\ MonitorInit
    /\ fn = "none"
    /\ arg = <<>>
    /\ ret = <<>>

\* A page operation can resolve only on an open page of an open browser.
PageUsable == page = "open" /\ browser = "open"

\* checkLoginStatus (the variant: a result that does not depend on the page)
CheckResultsBlind == {TRUE, FALSE}
\* checkLoginStatus: false when a login marker shows or the inspection throws.
CheckResults == IF PageUsable THEN {session = "auth", FALSE} ELSE {FALSE}

\* setupPage: `if (!browser) await launchBrowser();`
LaunchIfNull(b) == IF b = "null" THEN "open" ELSE b

\* startScraping: arm a new interval, keep its id, arm the first-run one-shot.
StartScraping ==
    /\ scrapeInterval' = scrapeInterval + 1
    /\ activeIntervals' = activeIntervals \cup {scrapeInterval + 1}
    /\ timeouts' = timeouts + 1

\* ------------------------------------------------------------- main()
\* setupPage (launchBrowser, newPage, cookies) and navigateToMenu succeed.
MainSetup ==
    /\ main = "boot"
    /\ main' = "check"
    /\ browser' = LaunchIfNull(browser)
    /\ page' = "open"
    /\ out' = NoOut
    /\ UNCHANGED <<fnVars, session, sinkUrl, isLoggedIn, snapVars, sinkVars, scrapeErrors,
                   totalScrapes, loginAlertSent, timerVars, cookieFile, now, pc,
                   mpc, runVars, alertVars>>

\* launchBrowser or newPage rejects: main().catch logs and exits.
MainFatal ==
    /\ main = "boot"
    /\ main' = "fatal"
    /\ out' = NoOut
    /\ UNCHANGED <<fnVars, handleVars, session, sinkUrl, isLoggedIn, snapVars, sinkVars,
                   scrapeErrors, totalScrapes, loginAlertSent, timerVars,
                   cookieFile, now, pc, mpc, runVars, alertVars>>

\* isLoggedIn = await checkLoginStatus(); alert when not logged in; startScraping.
MainCheck ==
    /\ main = "check"
    /\ \E r \in CheckResults :
         /\ isLoggedIn' = r
         /\ alerted' = ~r
         /\ out' = Out("none", IF r THEN "none" ELSE "startup")
    /\ StartScraping
    /\ main' = "running"
    /\ UNCHANGED <<fnVars, handleVars, session, sinkUrl, snapVars, sinkVars, scrapeErrors,
                   totalScrapes, loginAlertSent, cookieFile, now, pc, mpc,
                   runVars, prevExpired>>

\* ---------------------------------------------------------- doScrape
Idle(t) == pc[t] = "idle"
AllIdle == \A t \in Slots : Idle(t)
\* A new invocation takes the lowest free slot.
FreeSlot(t) == Idle(t) /\ \A u \in Slots : u < t => ~Idle(u)

\* `totalScrapes++` and the call of checkLoginStatus up to its await.
Begin(t) ==
    /\ FreeSlot(t)
    /\ totalScrapes < MaxScrapes
    /\ totalScrapes' = totalScrapes + 1
    /\ pc' = [pc EXCEPT ![t] = "check"]
    /\ IF AllIdle
       THEN overlaps' = overlaps
       ELSE overlaps < MaxOverlaps /\ overlaps' = overlaps + 1
    /\ out' = NoOut
    /\ UNCHANGED <<fnVars, main, handleVars, session, sinkUrl, loginVars, snapVars,
                   sinkVars, scrapeErrors, cookieFile, now, mpc, authRequests,
                   tickWrote, alertVars>>

\* setInterval(doScrape, SCRAPE_INTERVAL) fires.
IntervalFire(t) ==
    /\ activeIntervals # {}
    /\ Begin(t)
    /\ UNCHANGED timerVars

\* setTimeout(doScrape, 5000) fires.
TimeoutFire(t) ==
    /\ timeouts > 0
    /\ Begin(t)
    /\ timeouts' = timeouts - 1
    /\ UNCHANGED <<scrapeInterval, activeIntervals>>

\* The `return;` of line 456: where a tick that is not logged in goes on
\* (the variant: the return left out, the tick falls through to line 459).
AfterExpiredFallsThrough == "banner"
AfterExpired == "idle"

\* Lines 448-460: the login check resolves.
CheckLogin(t) ==
    /\ pc[t] = "check"
    /\ \E r \in CheckResults :
         IF ~r
         THEN /\ isLoggedIn' = FALSE
              /\ loginAlertSent' = TRUE
              /\ alerted' = TRUE
              /\ prevExpired' = TRUE
              /\ pc' = [pc EXCEPT ![t] = AfterExpired]
              /\ out' = Out("none", IF loginAlertSent THEN "none" ELSE "expired")
         ELSE /\ isLoggedIn' = TRUE
              /\ loginAlertSent' = FALSE
              /\ alerted' = FALSE
              /\ prevExpired' = FALSE
              /\ pc' = [pc EXCEPT ![t] = "banner"]
              /\ out' = NoOut
    /\ UNCHANGED <<fnVars, main, handleVars, session, sinkUrl, snapVars, sinkVars,
                   scrapeErrors, totalScrapes, timerVars, cookieFile, now, mpc,
                   runVars>>

\* `if (totalScrapes % 5 === 0)` with the counter at n (the variant: the
\* remainder compared with 1)
ScrollDueOff(n) == n % ScrollEvery = 1
ScrollDue(n) == n % ScrollEvery = 0

\* dismissCookieBanner swallows its errors; then `totalScrapes % 5 === 0`.
Banner(t) ==
    /\ pc[t] = "banner"
    /\ pc' = [pc EXCEPT ![t] = IF ScrollDue(totalScrapes) THEN "scroll" ELSE "scrape"]
    /\ out' = NoOut
    /\ UNCHANGED <<fnVars, main, handleVars, session, sinkUrl, loginVars, snapVars,
                   sinkVars, scrapeErrors, totalScrapes, timerVars, cookieFile,
                   now, mpc, runVars, alertVars>>

\* scrollToLoadAll resolves.
ScrollOk(t) ==
    /\ pc[t] = "scroll"
    /\ PageUsable
    /\ pc' = [pc EXCEPT ![t] = "scrape"]
    /\ out' = NoOut
    /\ UNCHANGED <<fnVars, main, handleVars, session, sinkUrl, loginVars, snapVars,
                   sinkVars, scrapeErrors, totalScrapes, timerVars, cookieFile,
                   now, mpc, runVars, alertVars>>

\* `if (scrapeErrors >= 5)` (the variant: the threshold met one failure early)
ShouldReloadEarly(n) == n + 1 >= ErrorThreshold
ShouldReload(n) == n >= ErrorThreshold

\* The catch block of doScrape entered with the counter at n: `scrapeErrors++`,
\* then the soft reload is awaited once the threshold is reached.
Catch(t, n) ==
    /\ scrapeErrors' = n + 1
    /\ pc' = [pc EXCEPT ![t] = IF ShouldReload(n + 1) THEN "reload" ELSE "idle"]

\* `hash === lastSentHash && (now - lastSheetSendTimestamp) < SHEET_SEND_INTERVAL`
Throttled(hash, at) ==
    hash = lastSentHash /\ (at - lastSheetSendTimestamp) < SHEET_SEND_INTERVAL

\* What a call sendToAppsScript(items) does when Date.now() is at: "skipped"
\* (not configured), "throttled" (early return), "threw" (new URL rejects
\* CONFIG.APPS_SCRIPT_URL, after the three assignments), and with req.end()
\* reached "sent" (the hash differs) or "resent" (same hash, interval over).
SinkOutcome(items, at) ==
    IF sinkUrl = "unset" THEN "skipped"
    ELSE IF Throttled(HashOf(items), at) THEN "throttled"
    ELSE IF sinkUrl = "malformed" THEN "threw"
    ELSE IF HashOf(items) = lastSentHash THEN "resent"
    ELSE "sent"

\* `if (items.length > 0)` (the variant: the guard dropped)
HasItemsAlways(items) == TRUE
HasItems(items) == Len(items) > 0

\* Lines 168-170 (the variant: the three assignments moved below `new URL`)
SendToAppsScriptLate(items, at) ==
    IF SinkOutcome(items, at) \in {"sent", "resent"}
    THEN /\ lastSentHash' = HashOf(items)
         /\ lastSheetSendTimestamp' = at
         /\ lastSendTime' = at
    ELSE UNCHANGED sinkVars
SendToAppsScript(items, at) ==
    IF SinkOutcome(items, at) \in {"sent", "resent", "threw"}
    THEN /\ lastSentHash' = HashOf(items)
         /\ lastSheetSendTimestamp' = at
         /\ lastSendTime' = at
    ELSE UNCHANGED sinkVars

\* Lines 472-483: scrapeDisabledItems resolves with items at time at (time does
\* not run backwards); the snapshot is replaced, the counter reset, a non-empty
\* list handed to the sink, and page.cookies() awaited.
ScrapeOk(t, items, at) ==
    /\ pc[t] = "scrape"
    /\ PageUsable
    /\ at >= now
    /\ now' = at
    /\ lastScrapeTime' = at
    /\ lastItems' = items
    /\ scrapeErrors' = 0
    /\ IF HasItems(items)
       THEN /\ SinkOutcome(items, at) # "threw"
            /\ SendToAppsScript(items, at)
            /\ out' = Out(SinkOutcome(items, at), "none")
       ELSE /\ UNCHANGED sinkVars
            /\ out' = NoOut
    /\ pc' = [pc EXCEPT ![t] = "cookies"]
    /\ tickWrote' = [tickWrote EXCEPT ![t] =
                        \/ items # lastItems
                        \/ at # lastScrapeTime
                        \/ scrapeErrors # 0]
    /\ UNCHANGED <<fnVars, main, handleVars, session, sinkUrl, loginVars, totalScrapes,
                   timerVars, cookieFile, mpc, authRequests, overlaps,
                   alertVars>>

\* The same lines when sendToAppsScript throws: the snapshot is replaced, the
\* counter reset, and the catch block of doScrape runs in the same step.
ScrapeSinkThrows(t, items, at) ==
    /\ pc[t] = "scrape"
    /\ PageUsable
    /\ at >= now
    /\ now' = at
    /\ lastScrapeTime' = at
    /\ lastItems' = items
    /\ HasItems(items)
    /\ SinkOutcome(items, at) = "threw"
    /\ SendToAppsScript(items, at)
    /\ Catch(t, 0)
    /\ out' = Out("threw", "none")
    /\ UNCHANGED <<fnVars, main, handleVars, session, sinkUrl, loginVars, totalScrapes,
                   timerVars, cookieFile, mpc, runVars, alertVars>>

\* Lines 486-487: page.cookies() resolves and saveCookies writes the file; the
\* try block ends.
CookiesOk(t) ==
    /\ pc[t] = "cookies"
    /\ PageUsable
    /\ cookieFile' = session
    /\ pc' = [pc EXCEPT ![t] = "idle"]
    /\ tickWrote' = [tickWrote EXCEPT ![t] = FALSE]
    /\ out' = NoOut
    /\ UNCHANGED <<fnVars, main, handleVars, session, sinkUrl, loginVars, snapVars,
                   sinkVars, scrapeErrors, totalScrapes, timerVars, now, mpc,
                   authRequests, overlaps, alertVars>>

\* scrollToLoadAll, scrapeDisabledItems, page.cookies() or saveCookies throws:
\* the catch block of doScrape runs.
TryPcs == {"scroll", "scrape", "cookies"}
Throw(t) ==
    /\ pc[t] \in TryPcs
    /\ Catch(t, scrapeErrors)
    /\ tickWrote' = [tickWrote EXCEPT ![t] = FALSE]
    /\ out' = NoOut
    /\ UNCHANGED <<fnVars, main, handleVars, session, sinkUrl, loginVars, snapVars,
                   sinkVars, totalScrapes, timerVars, cookieFile, now, mpc,
                   authRequests, overlaps, alertVars>>

\* ------------------------------------------- escalation (lines 504-529)
\* page.reload resolves: `scrapeErrors = 0`.
ReloadOk(t) ==
    /\ pc[t] = "reload"
    /\ PageUsable
    /\ scrapeErrors' = 0
    /\ pc' = [pc EXCEPT ![t] = "idle"]
    /\ out' = NoOut
    /\ UNCHANGED <<fnVars, main, handleVars, session, sinkUrl, loginVars, snapVars,
                   sinkVars, totalScrapes, timerVars, cookieFile, now, mpc,
                   runVars, alertVars>>

\* page.reload rejects: restartBrowser is called and runs to its first await,
\* `if (scrapeInterval) clearInterval(scrapeInterval)` then page.close().
ReloadFail(t) ==
    /\ pc[t] = "reload"
    /\ activeIntervals' = activeIntervals \ {scrapeInterval}
    /\ pc' = [pc EXCEPT ![t] = "teardown"]
    /\ out' = NoOut
    /\ UNCHANGED <<fnVars, main, handleVars, session, sinkUrl, loginVars, snapVars,
                   sinkVars, scrapeErrors, totalScrapes, scrapeInterval, timeouts,
                   cookieFile, now, mpc, runVars, alertVars>>

\* `await page.close().catch(() => {})` and `await browser.close().catch(() =>
\* {})` settle; closing can fail and leave the handle as it was. The variable
\* `browser` keeps the handle, so setupPage skips launchBrowser
\* (`if (!browser)`) and awaits browser.newPage() on it.
Teardown(t) ==
    /\ pc[t] = "teardown"
    /\ \E ok \in BOOLEAN :
         /\ browser' = IF ok THEN "closed" ELSE browser
         /\ page' = IF ok THEN "closed" ELSE page
    /\ pc' = [pc EXCEPT ![t] = "setup"]
    /\ out' = NoOut
    /\ UNCHANGED <<fnVars, main, session, sinkUrl, loginVars, snapVars, sinkVars,
                   scrapeErrors, totalScrapes, timerVars, cookieFile, now, mpc,
                   runVars, alertVars>>

\* setupPage resolves (a page is opened on the handle in `browser`, configured,
\* the stored cookies applied), navigateToMenu settles (it swallows its
\* errors), startScraping; the tick ends.
SetupOk(t) ==
    /\ pc[t] = "setup"
    /\ LaunchIfNull(browser) = "open"
    /\ browser' = LaunchIfNull(browser)
    /\ page' = "open"
    /\ StartScraping
    /\ pc' = [pc EXCEPT ![t] = "idle"]
    /\ out' = NoOut
    /\ UNCHANGED <<fnVars, main, session, sinkUrl, loginVars, snapVars, sinkVars,
                   scrapeErrors, totalScrapes, cookieFile, now, mpc, runVars,
                   alertVars>>

\* setupPage rejects (browser.newPage() on a closed handle always does; a
\* later await of setupPage may, after `page` was assigned): restartBrowser and
\* doScrape reject, startScraping is not reached.
SetupFail(t) ==
    /\ pc[t] = "setup"
    /\ page' \in (IF browser = "open" THEN {page, "open"} ELSE {page})
    /\ pc' = [pc EXCEPT ![t] = "idle"]
    /\ out' = NoOut
    /\ UNCHANGED <<fnVars, main, browser, session, sinkUrl, loginVars, snapVars, sinkVars,
                   scrapeErrors, totalScrapes, timerVars, cookieFile, now, mpc,
                   runVars, alertVars>>

\* ------------------------------------- POST /auth/magic-link (902-948)
\* The request arrives; with a wrong password or no link it is answered at once.
MagicRequest(valid) ==
    /\ main # "boot"
    /\ main # "fatal"
    /\ mpc = "idle"
    /\ authRequests < MaxAuth
    /\ authRequests' = authRequests + 1
    /\ mpc' = IF valid THEN "goto" ELSE "idle"
    /\ out' = NoOut
    /\ UNCHANGED <<fnVars, main, handleVars, session, sinkUrl, loginVars, snapVars,
                   sinkVars, scrapeErrors, totalScrapes, timerVars, cookieFile,
                   now, pc, alertVars, overlaps, tickWrote>>

\* page.goto(magicLink) resolves (the link may or may not log the session in)
\* and saveCookies stores the cookies; page.goto(WOLT_MENU_URL) is awaited.
MagicLink ==
    /\ mpc = "goto"
    /\ PageUsable
    /\ session' \in {"auth", session}
    /\ cookieFile' = session'
    /\ mpc' = "menu"
    /\ out' = NoOut
    /\ UNCHANGED <<fnVars, main, handleVars, sinkUrl, loginVars, snapVars, sinkVars,
                   scrapeErrors, totalScrapes, timerVars, now, pc, runVars,
                   alertVars>>

\* The menu page loads; `isLoggedIn = await checkLoginStatus(); loginAlertSent =
\* false;` then page.cookies() is awaited.
MagicCheck ==
    /\ mpc = "menu"
    /\ PageUsable
    /\ \E r \in CheckResults :
         /\ isLoggedIn' = r
         /\ loginAlertSent' = FALSE
         /\ alerted' = IF r THEN FALSE ELSE alerted
         /\ out' = NoOut
    /\ mpc' = "save"
    /\ UNCHANGED <<fnVars, main, handleVars, session, sinkUrl, snapVars, sinkVars,
                   scrapeErrors, totalScrapes, timerVars, cookieFile, now, pc,
                   runVars, prevExpired>>

\* saveCookies(finalCookies); the success alert when isLoggedIn.
MagicSave ==
    /\ mpc = "save"
    /\ PageUsable
    /\ cookieFile' = session
    /\ mpc' = "idle"
    /\ out' = Out("none", IF isLoggedIn THEN "success" ELSE "none")
    /\ UNCHANGED <<fnVars, main, handleVars, session, sinkUrl, loginVars, snapVars,
                   sinkVars, scrapeErrors, totalScrapes, timerVars, now, pc,
                   runVars, alertVars>>

\* A page operation or saveCookies of the handler throws: its catch answers.
MagicThrow ==
    /\ mpc \in {"goto", "menu", "save"}
    /\ mpc' = "idle"
    /\ out' = NoOut
    /\ UNCHANGED <<fnVars, main, handleVars, session, sinkUrl, loginVars, snapVars,
                   sinkVars, scrapeErrors, totalScrapes, timerVars, cookieFile,
                   now, pc, runVars, alertVars>>

\* ----------------------------------------------------------- environment
\* The site ends the session.
SessionExpires ==
    /\ main = "running"
    /\ session = "auth"
    /\ session' = "expired"
    /\ out' = NoOut
    /\ UNCHANGED <<fnVars, main, handleVars, sinkUrl, loginVars, snapVars, sinkVars,
                   scrapeErrors, totalScrapes, timerVars, cookieFile, now, pc,
                   mpc, runVars, alertVars>>

\* ------------------------------------------------------------------ Next
TickStep(t) ==
    \/ CheckLogin(t)
    \/ Banner(t)
    \/ ScrollOk(t)
    \/ \E items \in Snapshots, at \in StartTime..MaxTime : ScrapeOk(t, items, at)
    \/ \E items \in Snapshots, at \in StartTime..MaxTime : ScrapeSinkThrows(t, items, at)
    \/ CookiesOk(t)
    \/ Throw(t)
    \/ ReloadOk(t)
    \/ ReloadFail(t)
    \/ Teardown(t)
    \/ SetupOk(t)
    \/ SetupFail(t)

Others ==
    \/ MainSetup
    \/ MainFatal
    \/ MainCheck
    \/ \E valid \in BOOLEAN : MagicRequest(valid)
    \/ MagicLink
    \/ MagicCheck
    \/ MagicSave
    \/ MagicThrow
    \/ SessionExpires

Next ==
    \/ \E t \in Slots : IntervalFire(t)
    \/ \E t \in Slots : TimeoutFire(t)
    \/ \E t \in Slots : TickStep(t)
    \/ Others

Spec == Init /\ [][Next]_vars

\* Runs in which every tick ends before the next timer fires.
NextSeq ==
    \/ AllIdle /\ IntervalFire(1)
    \/ AllIdle /\ TimeoutFire(1)
    \/ \E t \in Slots : TickStep(t)
    \/ Others

SpecSeq == Init /\ [][NextSeq]_vars

TypeOK ==
    /\ scrapeErrors \in 0..MaxScrapes
    /\ totalScrapes \in 0..MaxScrapes
    /\ now \in StartTime..MaxTime
    /\ lastItems \in Snapshots
    /\ lastScrapeTime \in {0} \cup (StartTime..MaxTime)
    /\ lastSheetSendTimestamp \in {0} \cup (StartTime..MaxTime)
    /\ lastSendTime = lastSheetSendTimestamp
    /\ tickWrote \in [Slots -> BOOLEAN]
    /\ \A t \in Slots : tickWrote[t] => pc[t] = "cookies"

\* ======================================================================
\* Functions applied on their own
\* ======================================================================
\* Lists of at most n elements of S.
SeqsUpTo(S, n) == UNION {[1..k -> S] : k \in 0..n}

\* ---------------------------------- the fingerprint of sendToAppsScript
\* Records as scrapeDisabledItems builds them: both types, names that share
\* a prefix, and two records that differ in price only.
ColaItem == [type |-> "item", name |-> <<"C">>]
PizzaOption == [type |-> "option", name |-> <<"P">>]
Pan == [type |-> "item", name |-> <<"P", "a">>]
DearPizza == [type |-> "item", name |-> <<"P">>, price |-> <<"a">>]
HashRecords == {Pizza, Cola, ColaItem, PizzaOption, Pan, DearPizza}

InitHash ==
    /\ MonitorInit
    /\ fn = "sendToAppsScript"
    /\ arg \in SeqsUpTo(HashRecords, MaxHashLen) \X SeqsUpTo(HashRecords, MaxHashLen)
    /\ ret = <<>>

\* Line 161 evaluated for the two lists of arg.
HashCall ==
    /\ fn = "sendToAppsScript"
    /\ ret = <<>>
    /\ ret' = <<HashOf(arg[1]), HashOf(arg[2])>>
    /\ UNCHANGED <<monitorVars, fn, arg>>

NextHash == HashCall
SpecHash == InitHash /\ [][NextHash]_vars

\* --------------------------------------------------- checkLoginStatus
\* A URL is the list of its parts; what the four tests of the evaluate
\* callback (lines 429-432) look for are the features of the document.
UrlParts == {"/login", "/auth", "/menu"}
DomFeatures == {"emailInput", "loginClass", "textSignIn", "textLogIn"}
\* What checkLoginStatus meets: the handle in `page`, its URL and document,
\* and whether page.evaluate rejects.
LoginArgs ==
    [page : {"null", "closed", "open"},
     url : SeqsUpTo(UrlParts, MaxUrlLen),
     dom : SUBSET DomFeatures,
     evaluateRejects : BOOLEAN]

\* url.includes(part)
Includes(url, part) == \E k \in DOMAIN url : url[k] = part
\* Line 427.
IsLoginPage(url) == Includes(url, "/login") \/ Includes(url, "/auth")
\* Lines 428-433.
HasLoginForm(dom) ==
    \/ "emailInput" \in dom
    \/ "loginClass" \in dom
    \/ "textSignIn" \in dom
    \/ "textLogIn" \in dom
\* page.url() throws on the null handle, page.evaluate rejects on a closed
\* page or when the evaluation fails.
InspectionThrows(a) == a.page # "open" \/ a.evaluateRejects
\* `catch { return false; }` (the variant: the failure taken for logged in)
CaughtResultTrue == TRUE
CaughtResult == FALSE
\* Lines 423-438.
CheckLoginStatus(a) ==
    IF InspectionThrows(a) THEN CaughtResult
    ELSE ~(IsLoginPage(a.url) \/ HasLoginForm(a.dom))

InitLogin ==
    /\ MonitorInit
    /\ fn = "checkLoginStatus"
    /\ arg \in LoginArgs
    /\ ret = <<>>

\* The call settles: the whole body is inside the try, so it resolves.
LoginCall ==
    /\ fn = "checkLoginStatus"
    /\ ret = <<>>
    /\ ret' = [value |-> CheckLoginStatus(arg), threw |-> FALSE]
    /\ UNCHANGED <<monitorVars, fn, arg>>

NextLogin == LoginCall
SpecLogin == InitLogin /\ [][NextLogin]_vars

\* ---------------------------------------------------- scrollToLoadAll
\* Content heights the page can report after a step.
Heights == 0..MaxHeight
\* Scroll positions of the scrolled region when the call begins: the top, or
\* one step down.
Origins == {0, ScrollBy}

\* The heights the loop has compared, oldest first, the last SameLimit + 1
\* kept.
Recent(hs) ==
    IF Len(hs) > SameLimit + 1 THEN SubSeq(hs, Len(hs) - SameLimit, Len(hs)) ELSE hs

\* The locals of the evaluate callback (i, lastHeight, sameCount), the scroll
\* position of the scrolled region, the scroll steps made so far, the heights
\* compared so far (the initial lastHeight first), and where the callback
\* is: in its loop, at "Scroll back to top", returned, or rejected.
InitScroll ==
    /\ MonitorInit
    /\ fn = "scrollToLoadAll"
    /\ arg \in [origin : Origins]
    /\ ret = [i |-> 0, lastHeight |-> 0, sameCount |-> 0,
              scrollTop |-> arg.origin, steps |-> 0, heights |-> <<0>>,
              at |-> "loop"]

\* `i < 25` (the variant: the bound taken as inclusive)
ScrollMoreOff(i) == i <= ScrollCap
ScrollMore(i) == i < ScrollCap

\* `if (sameCount >= 3) break;` (the variant: one more equal height needed)
ConvergedLate(same) == same > SameLimit
Converged(same) == same >= SameLimit

\* One iteration of the loop (lines 390-409): the region moves down one step
\* unless it is already at its end, the page reports the height h after the
\* 300 ms wait, and the loop breaks at the third equal height in a row.
ScrollStep(h, moved) ==
    /\ fn = "scrollToLoadAll"
    /\ ret.at = "loop"
    /\ ScrollMore(ret.i)
    /\ moved => ret.scrollTop < MaxDepth * ScrollBy
    /\ LET top == IF moved THEN ret.scrollTop + ScrollBy ELSE ret.scrollTop
           same == IF h = ret.lastHeight THEN ret.sameCount + 1 ELSE 0
       IN  ret' = IF h = ret.lastHeight /\ Converged(same)
                  THEN [ret EXCEPT !.scrollTop = top, !.sameCount = same,
                                   !.steps = @ + 1,
                                   !.heights = Recent(Append(@, h)),
                                   !.at = "top"]
                  ELSE [ret EXCEPT !.scrollTop = top, !.sameCount = same,
                                   !.steps = @ + 1, !.lastHeight = h,
                                   !.heights = Recent(Append(@, h)),
                                   !.i = @ + 1,
                                   !.at = IF ScrollMore(ret.i + 1) THEN "loop" ELSE "top"]
    /\ UNCHANGED <<monitorVars, fn, arg>>

\* `window.scrollTo(0, 0)`, `container.scrollTop = 0` (the variant: the
\* region left where the loop ended)
StayPut(f) == f.scrollTop
BackTo(f) == 0

\* Lines 411-416, then the callback returns.
ScrollBack ==
    /\ fn = "scrollToLoadAll"
    /\ ret.at = "top"
    /\ ret' = [ret EXCEPT !.scrollTop = BackTo(ret), !.at = "done"]
    /\ UNCHANGED <<monitorVars, fn, arg>>

\* page.evaluate rejects while the callback waits (the page was navigated or
\* closed): scrollToLoadAll throws, the region stays where it was.
ScrollAbort ==
    /\ fn = "scrollToLoadAll"
    /\ ret.at = "loop"
    /\ ret' = [ret EXCEPT !.at = "threw"]
    /\ UNCHANGED <<monitorVars, fn, arg>>

NextScroll ==
    \/ \E h \in Heights, moved \in BOOLEAN : ScrollStep(h, moved)
    \/ ScrollBack
    \/ ScrollAbort

\* The 300 ms timer of line 396 always fires and the rest of the callback is
\* synchronous, so a callback that can take a step takes one.
SpecScroll == InitScroll /\ [][NextScroll]_vars /\ WF_vars(NextScroll)

\* ------------------------------------------------ scrapeDisabledItems
\* textContent of the elements of a row (blank, a name after a blank) and of
\* its spans (blank, a name with a trailing comma, a lone comma).
Texts == {<<" ">>, <<" ", "a">>}
SpanTexts == {<<" ">>, <<"a", ",">>, <<",">>}
Whitespace == {" "}
\* What stands for the text of an element the row does not have.
Absent == <<"absent">>

RECURSIVE TrimStart(_)
TrimStart(s) ==
    IF s # <<>> /\ Head(s) \in Whitespace THEN TrimStart(Tail(s)) ELSE s
RECURSIVE TrimEnd(_)
TrimEnd(s) ==
    IF s # <<>> /\ s[Len(s)] \in Whitespace
    THEN TrimEnd(SubSeq(s, 1, Len(s) - 1))
    ELSE s
\* String.prototype.trim
Trim(s) == TrimEnd(TrimStart(s))

\* `.replace(/,\s*$/, '')`
StripComma(s) ==
    LET t == TrimEnd(s)
    IN  IF t # <<>> /\ t[Len(t)] = "," THEN SubSeq(t, 1, Len(t) - 1) ELSE s

\* 'Uncategorized', 'Unknown', 'Unknown Option Group'
Uncategorized == <<"U", "n", "c", "a", "t">>
Unknown == <<"U", "n", "k", "n", "o", "w", "n">>
UnknownOptionGroup == Unknown \o <<" ">> \o <<"O", "p", "t", "i", "o", "n">>

\* A span of a row: its textContent and whether it carries the `disabled`
\* attribute, the jQyrIl class (on a span[dir="auto"][lang]), or neither.
\* The spans hold no price element and no parentheses.
Spans == [text : SpanTexts, kind : {"disabled", "jQyrIl", "plain"}]
Span(text, kind) == [text |-> text, kind |-> kind]
\* The spans of a row: none, any one span, or one of four pairs (two
\* disabled, a disabled one before a jQyrIl one, two jQyrIl ones of which
\* one is blank, a plain one before a jQyrIl one).
SpanLists ==
    SeqsUpTo(Spans, 1) \cup
    {<<Span(<<"a", ",">>, "disabled"), Span(<<",">>, "disabled")>>,
     <<Span(<<"a", ",">>, "disabled"), Span(<<"a", ",">>, "jQyrIl")>>,
     <<Span(<<"a", ",">>, "jQyrIl"), Span(<<" ">>, "jQyrIl")>>,
     <<Span(<<"a", ",">>, "plain"), Span(<<"a", ",">>, "jQyrIl")>>}

\* A row of the menu: the text of its category header if it has one, the
\* texts of its tags upper-cased, the text of its hgTNKZ element and of its
\* al-t-caption-label element, which of the two comes first in the row, and
\* its spans.
CategoryRows ==
    [category : Texts, tags : {{}}, label : {Absent}, caption : {Absent},
     captionFirst : {FALSE}, spans : {<<>>}]
ContentRows ==
    {row \in [category : {Absent},
              tags : SUBSET {"DISABLED", "DISABLED CHOICE (1)"},
              label : Texts \cup {Absent},
              caption : Texts \cup {Absent},
              captionFirst : BOOLEAN,
              spans : SpanLists] :
        row.captionFirst => (row.label # Absent /\ row.caption # Absent)}
Rows == CategoryRows \cup ContentRows

\* `row.querySelector('[class*="hgTNKZ"], [class*="al-t-caption-label"]')`:
\* the first of the two elements in the row.
NameEl(row) ==
    IF row.label = Absent THEN row.caption
    ELSE IF row.caption = Absent THEN row.label
    ELSE IF row.captionFirst THEN row.caption ELSE row.label

\* Line 300
ItemName(row) ==
    IF NameEl(row) = Absent THEN Unknown ELSE Trim(NameEl(row))

\* Line 313
GroupName(row) ==
    IF row.caption = Absent THEN UnknownOptionGroup ELSE Trim(row.caption)

\* Lines 323-328 for a span without price: the regular expression of line
\* 324 finds no parenthesis and the branch of line 325 is not taken.
OptionName(span) == Trim(StripComma(Trim(span.text)))

\* Lines 317-340 and 343-371: the spans that are read are the disabled
\* ones, or the jQyrIl ones when none is disabled.
RECURSIVE SelectKind(_, _)
SelectKind(spans, kind) ==
    IF spans = <<>> THEN <<>>
    ELSE IF Head(spans).kind = kind
         THEN <<Head(spans)>> \o SelectKind(Tail(spans), kind)
         ELSE SelectKind(Tail(spans), kind)
\* `if (disabledSpans.length === 0)` (the variant: the fallback always run)
ReadSpansBoth(row) ==
    SelectKind(row.spans, "disabled") \o SelectKind(row.spans, "jQyrIl")
ReadSpans(row) ==
    IF SelectKind(row.spans, "disabled") # <<>>
    THEN SelectKind(row.spans, "disabled")
    ELSE SelectKind(row.spans, "jQyrIl")

\* `if (optionName) items.push({...})` for each span read.
RECURSIVE Options(_, _, _)
Options(spans, group, category) ==
    IF spans = <<>> THEN <<>>
    ELSE (IF OptionName(Head(spans)) # <<>>
          THEN <<[type |-> "option", name |-> OptionName(Head(spans)),
                  category |-> category, optionGroup |-> group]>>
          ELSE <<>>)
         \o Options(Tail(spans), group, category)

\* The records one content row adds (lines 286-372).
RowRecords(row, category) ==
    (IF "DISABLED" \in row.tags
     THEN <<[type |-> "item", name |-> ItemName(row), category |-> category]>>
     ELSE <<>>)
    \o (IF "DISABLED CHOICE (1)" \in row.tags
        THEN Options(ReadSpans(row), GroupName(row), category)
        ELSE <<>>)

InitExtract ==
    /\ MonitorInit
    /\ fn = "scrapeDisabledItems"
    /\ arg = <<>>
    /\ ret = [items |-> <<>>, currentCategory |-> Uncategorized, n |-> 0,
              returned |-> FALSE, headers |-> <<>>, from |-> <<>>,
              last |-> [tags |-> {}, spans |-> <<>>]]

\* `currentCategory = categoryEl.textContent.trim()` (the variant: the text
\* kept untrimmed)
HeaderCategoryRaw(text) == text
HeaderCategory(text) == Trim(text)

\* The callback of rows.forEach for the next row of the document. ret.n is
\* the number of rows read, ret.headers the header text of each row read
\* (Absent for a row without one), ret.from the row each record came from
\* and ret.last the tags and spans of the row read last.
ExtractRow(row) ==
    /\ fn = "scrapeDisabledItems"
    /\ ~ret.returned
    /\ ret.n < MaxRows
    /\ ret' = IF row.category # Absent
              THEN [ret EXCEPT !.currentCategory = HeaderCategory(row.category),
                               !.n = @ + 1,
                               !.headers = Append(@, row.category),
                               !.last = [tags |-> row.tags, spans |-> row.spans]]
              ELSE [ret EXCEPT !.items = @ \o RowRecords(row, ret.currentCategory),
                               !.n = @ + 1,
                               !.headers = Append(@, Absent),
                               !.last = [tags |-> row.tags, spans |-> row.spans],
                               !.from = @ \o [k \in 1..Len(RowRecords(row, ret.currentCategory))
                                               |-> ret.n + 1]]
    /\ UNCHANGED <<monitorVars, fn, arg>>

\* `return items;` after the last row.
ExtractReturn ==
    /\ fn = "scrapeDisabledItems"
    /\ ~ret.returned
    /\ ret' = [ret EXCEPT !.returned = TRUE]
    /\ UNCHANGED <<monitorVars, fn, arg>>

NextExtract ==
    \/ \E row \in Rows : ExtractRow(row)
    \/ ExtractReturn
SpecExtract == InitExtract /\ [][NextExtract]_vars

\* ------------------------------------ sendToAppsScript and its request
\* How a request that was issued ends: a 2xx response, another status, or
\* the 'error' event.
Responses == {"2xx", "non2xx", "error"}
\* Everything of the monitor but the clock, the three sink variables and
\* what was handed to the sinks.
sinkFrame == <<main, browser, page, session, sinkUrl, isLoggedIn,
               lastScrapeTime, lastItems, scrapeErrors, totalScrapes,
               loginAlertSent, scrapeInterval, activeIntervals, timeouts,
               cookieFile, pc, mpc, authRequests, prevExpired, alerted,
               overlaps, tickWrote>>

\* ret counts the calls made, holds the outcome of the last one, the number
\* of requests awaiting their response and how the last response ended.
InitSink ==
    /\ MonitorInit
    /\ fn = "sink"
    /\ arg = <<>>
    /\ ret = [calls |-> 0, last |-> "none", pending |-> 0, settled |-> "none"]

\* sendToAppsScript(items) runs (lines 155-194) with Date.now() = at; it is
\* only ever called with a non-empty list (line 481).
SinkInvoke(items, at) ==
    /\ fn = "sink"
    /\ ret.calls < MaxCalls
    /\ at >= now
    /\ now' = at
    /\ SendToAppsScript(items, at)
    /\ out' = Out(SinkOutcome(items, at), "none")
    /\ arg' = [items |-> items, at |-> at]
    /\ ret' = [ret EXCEPT !.calls = @ + 1,
                          !.last = SinkOutcome(items, at),
                          !.pending = IF SinkOutcome(items, at) \in {"sent", "resent"}
                                      THEN @ + 1 ELSE @]
    /\ UNCHANGED <<sinkFrame, fn>>

\* The response callback (lines 186-190) or the 'error' listener (line 191)
\* of a request runs: both only log.
SinkRespond(o) ==
    /\ fn = "sink"
    /\ ret.pending > 0
    /\ ret' = [ret EXCEPT !.pending = @ - 1, !.settled = o]
    /\ UNCHANGED <<monitorVars, fn, arg>>

NextSink ==
    \/ \E items \in Snapshots \ {<<>>}, at \in StartTime..MaxTime : SinkInvoke(items, at)
    \/ \E o \in Responses : SinkRespond(o)
SpecSink == InitSink /\ [][NextSink]_vars

\* ------------------------------------------------------------ setupPage
\* What COOKIE_PATH holds when setupPage runs: no file, a file JSON.parse
\* rejects (loadCookies answers null for both), or a list of cookies.
CookieFiles == {"none", "unreadable", "cookies"}
\* loadCookies (lines 100-111): the cookies, or null.
LoadCookies(file) == IF file = "cookies" THEN "cookies" ELSE "null"

\* The awaits of setupPage in order (lines 240-260), then its return.
SetupSteps == <<"launch", "newPage", "intercept", "viewport", "agent",
                "setCookie", "returned">>
\* `if (!browser)`: launchBrowser is awaited only without a browser; `if
\* (cookies)`: page.setCookie is awaited only with cookies.
RECURSIVE StepAfter(_, _)
StepAfter(k, file) ==
    IF SetupSteps[k + 1] = "setCookie" /\ LoadCookies(file) = "null"
    THEN StepAfter(k + 1, file)
    ELSE k + 1

\* ret.k is the await setupPage is at, ret.page whether `page` holds the new
\* page, ret.jar whether the stored cookies are on that page, ret.navigated
\* who navigated it first ("none", "caller", "handler"), and ret.bare whether
\* a navigation was issued on it while the stored cookies were not applied.
InitSetup ==
    /\ MonitorInit
    /\ fn = "setupPage"
    /\ arg \in [file : CookieFiles, browser : {"null", "open"}]
    /\ ret = [k |-> IF arg.browser = "null" THEN 1 ELSE 2, page |-> "null",
              jar |-> "empty", navigated |-> "none", bare |-> FALSE,
              threw |-> FALSE]

SetupRunning == fn = "setupPage" /\ ~ret.threw /\ SetupSteps[ret.k] # "returned"

\* The await setupPage is at resolves: `page = await browser.newPage()`
\* assigns the module variable, page.setCookie puts the stored cookies on
\* the page.
SetupResolve ==
    /\ SetupRunning
    /\ ret' = [ret EXCEPT
                 !.k = StepAfter(ret.k, arg.file),
                 !.page = IF SetupSteps[ret.k] = "newPage" THEN "open" ELSE @,
                 !.jar = IF SetupSteps[ret.k] = "setCookie" THEN "stored" ELSE @]
    /\ UNCHANGED <<monitorVars, fn, arg>>

\* The await rejects: setupPage throws to its caller, which navigates nothing.
SetupReject ==
    /\ SetupRunning
    /\ ret' = [ret EXCEPT !.threw = TRUE]
    /\ UNCHANGED <<monitorVars, fn, arg>>

\* A navigation on the page starts while the store holds cookies that are
\* not on the page.
Bare(f, file) == LoadCookies(file) # "null" /\ f.jar # "stored"

\* navigateToMenu, called by main and restartBrowser once setupPage returned.
CallerNavigates ==
    /\ fn = "setupPage"
    /\ ~ret.threw
    /\ SetupSteps[ret.k] = "returned"
    /\ ret.navigated = "none"
    /\ ret' = [ret EXCEPT !.navigated = "caller",
                          !.bare = @ \/ Bare(ret, arg.file)]
    /\ UNCHANGED <<monitorVars, fn, arg>>

\* A request arrives (the server listens before main calls setupPage) and its
\* handler navigates whatever `page` holds: page.reload of /api/refresh,
\* page.goto of /auth/magic-link and /auth/request-login.
HandlerNavigates ==
    /\ fn = "setupPage"
    /\ ret.page = "open"
    /\ ret.navigated = "none"
    /\ ret' = [ret EXCEPT !.navigated = "handler",
                          !.bare = @ \/ Bare(ret, arg.file)]
    /\ UNCHANGED <<monitorVars, fn, arg>>

NextSetup ==
    \/ SetupResolve
    \/ SetupReject
    \/ CallerNavigates
    \/ HandlerNavigates
SpecSetup == InitSetup /\ [][NextSetup]_vars

\* ------------------------------------------------- SIGTERM (1074-1080)
\* The handler of SIGTERM, while main() goes on: the signal can arrive in any
\* state of the start-up, and main's awaits settle between the awaits of the
\* handler.
shutdownFrame == <<main, session, sinkUrl, isLoggedIn, snapVars, sinkVars,
                   scrapeErrors, totalScrapes, loginAlertSent, scrapeInterval,
                   timeouts, cookieFile, now, pc, mpc, runVars, alertVars, out>>

\* ret.at is where the handler is ("running": no signal yet), ret.log the
\* steps it took, ret.timer and ret.page what `scrapeInterval` and `page`
\* held when it tested them.
InitShutdown ==
    /\ MonitorInit
    /\ fn = "shutdown"
    /\ arg = <<>>
    /\ ret = [at |-> "running", log |-> <<>>, timer |-> 0, page |-> "null"]

\* `if (browser) await browser.close()...; process.exit(0)` (the variant:
\* process.exit(0) with the browser left alone).
ExitAfterLeavesBrowser(b) == "exited"
ExitAfter(b) == IF b # "null" THEN "browser.close" ELSE "exited"
\* `if (page) await page.close()...` and what follows it.
CloseAfter(p, b) == IF p # "null" THEN "page.close" ELSE ExitAfter(b)

\* The signal arrives: `if (scrapeInterval) clearInterval(scrapeInterval)`,
\* then the handler runs to its first await, or to process.exit.
Sigterm ==
    /\ fn = "shutdown"
    /\ ret.at = "running"
    /\ main # "fatal"
    /\ activeIntervals' = IF scrapeInterval # 0
                          THEN activeIntervals \ {scrapeInterval}
                          ELSE activeIntervals
    /\ ret' = [at |-> CloseAfter(page, browser),
               log |-> (IF scrapeInterval # 0 THEN <<"clearInterval">> ELSE <<>>)
                       \o <<CloseAfter(page, browser)>>,
               timer |-> scrapeInterval,
               page |-> page]
    /\ UNCHANGED <<shutdownFrame, handleVars, fn, arg>>

\* `await page.close().catch(() => {})` settles, closed or not.
PageClosed(ok) ==
    /\ fn = "shutdown"
    /\ ret.at = "page.close"
    /\ page' = IF ok THEN "closed" ELSE page
    /\ ret' = [ret EXCEPT !.at = ExitAfter(browser),
                          !.log = Append(@, ExitAfter(browser))]
    /\ UNCHANGED <<shutdownFrame, browser, activeIntervals, fn, arg>>

\* `await browser.close().catch(() => {})` settles, closed or not;
\* process.exit(0).
BrowserClosed(ok) ==
    /\ fn = "shutdown"
    /\ ret.at = "browser.close"
    /\ browser' = IF ok THEN "closed" ELSE browser
    /\ page' = IF ok /\ page = "open" THEN "closed" ELSE page
    /\ ret' = [ret EXCEPT !.at = "exited", !.log = Append(@, "exited")]
    /\ UNCHANGED <<shutdownFrame, activeIntervals, fn, arg>>

\* main() goes on until the process has exited.
NextShutdown ==
    \/ ret.at # "exited" /\ MainSetup
    \/ ret.at # "exited" /\ MainFatal
    \/ ret.at # "exited" /\ MainCheck
    \/ Sigterm
    \/ \E ok \in BOOLEAN : PageClosed(ok)
    \/ \E ok \in BOOLEAN : BrowserClosed(ok)
SpecShutdown == InitShutdown /\ [][NextShutdown]_vars

\* ------------------------------------------- sendWhatsAppAlert (116-150)
\* sendWhatsAppAlert and the routes that edit the contacts file, each of them
\* synchronous. arg is the configuration (GREEN_API_INSTANCE, GREEN_API_TOKEN,
\* WHATSAPP_CHAT_ID); ret.file is the content of CONTACTS_PATH, ret.posts the
\* recipients the last call issued a POST for, in order, ret.before how many
\* the call before it posted to.
Credentials == {"", "set"}
ChatInputs == {<<>>, <<" ">>, <<"5">>}
ContactTypes == {"person", "group"}

\* `chatId.trim()`, then the suffix of the type when the id has no '@'.
FormatChatId(input, type) ==
    IF Trim(input) = <<>>
    THEN <<>>
    ELSE Trim(input) \o <<IF type = "group" THEN "@g.us" ELSE "@c.us">>

Contact(id, chatId, active) == [id |-> id, chatId |-> chatId, active |-> active]
\* DEFAULT_CONTACTS (lines 62-64): 'mateo' has id 0.
DefaultContacts(chat) == <<Contact(0, chat, TRUE)>>

NoFile == {"missing", "unreadable"}
\* loadContacts (lines 67-78): the parsed file, or the defaults, which it saves.
LoadContacts(file, chat) == IF file \in NoFile THEN DefaultContacts(chat) ELSE file

\* `c.active && c.chatId` (the variant: `c.active` alone).
ReceivesWhenActive(c) == c.active
Receives(c) == c.active /\ c.chatId # <<>>
\* getActiveContacts applied to the list loadContacts returned.
GetActiveContacts(list) == SelectSeq(list, Receives)

Configured(a) == a.instance # "" /\ a.token # ""

InitAlert ==
    /\ MonitorInit
    /\ fn = "alert"
    /\ arg \in [instance : Credentials, token : Credentials, chat : {<<>>, <<"1", "@c.us">>}]
    /\ ret = [file |-> "missing", nextId |-> 1, calls |-> 0, posts |-> <<>>,
              before |-> 0]

\* sendWhatsAppAlert(message): return when not configured; otherwise one
\* https.request POST for each of getActiveContacts().
AlertCall ==
    /\ fn = "alert"
    /\ ret.calls < MaxCalls
    /\ ret' = IF Configured(arg)
              THEN [ret EXCEPT !.file = LoadContacts(ret.file, arg.chat),
                               !.posts = GetActiveContacts(LoadContacts(ret.file, arg.chat)),
                               !.before = Len(ret.posts),
                               !.calls = @ + 1]
              ELSE [ret EXCEPT !.posts = <<>>, !.before = Len(ret.posts), !.calls = @ + 1]
    /\ UNCHANGED <<monitorVars, fn, arg>>

\* `contacts.find(c => c.id === id)`: the index of the first one, 0 for none.
FindContact(list, id) ==
    IF \E i \in 1..Len(list) : list[i].id = id
    THEN CHOOSE i \in 1..Len(list) :
             list[i].id = id /\ \A j \in 1..(i - 1) : list[j].id # id
    ELSE 0

\* POST /contacts/toggle (lines 745-754)
ContactsToggle(id) ==
    /\ fn = "alert"
    /\ LET list == LoadContacts(ret.file, arg.chat)
           i == FindContact(list, id)
       IN  ret' = [ret EXCEPT !.file = IF i = 0 THEN list
                                       ELSE [list EXCEPT ![i].active = ~@]]
    /\ UNCHANGED <<monitorVars, fn, arg>>

\* POST /contacts/add (lines 757-784) with the right password
ContactsAdd(input, type) ==
    /\ fn = "alert"
    /\ ret.nextId <= MaxContacts
    /\ Len(LoadContacts(ret.file, arg.chat)) < MaxContacts
    /\ ret' = [ret EXCEPT
                 !.file = Append(LoadContacts(ret.file, arg.chat),
                                 Contact(ret.nextId, FormatChatId(input, type), TRUE)),
                 !.nextId = @ + 1]
    /\ UNCHANGED <<monitorVars, fn, arg>>

\* POST /contacts/remove (lines 843-853) with the right password
ContactsRemove(id) ==
    /\ fn = "alert"
    /\ ret' = [ret EXCEPT !.file = SelectSeq(LoadContacts(ret.file, arg.chat),
                                             LAMBDA c : c.id # id)]
    /\ UNCHANGED <<monitorVars, fn, arg>>

\* The contacts file is damaged from outside the process.
ContactsCorrupted ==
    /\ fn = "alert"
    /\ ret.file \notin NoFile
    /\ ret' = [ret EXCEPT !.file = "unreadable"]
    /\ UNCHANGED <<monitorVars, fn, arg>>

NextAlert ==
    \/ AlertCall
    \/ \E id \in 0..MaxContacts : ContactsToggle(id)
    \/ \E input \in ChatInputs, type \in ContactTypes : ContactsAdd(input, type)
    \/ \E id \in 0..MaxContacts : ContactsRemove(id)
    \/ ContactsCorrupted
SpecAlert == InitAlert /\ [][NextAlert]_vars

\* ------------------------------------- scrapeErrors over whole ticks
\* doScrape as one step from tick boundary to tick boundary, ticks one after
\* another: what its try block did, and what the escalation of its catch
\* block did when it was reached.
\*   "expired"    the login check answered false: `return` at line 456
\*   "threwEarly" scrollToLoadAll or scrapeDisabledItems threw (before 475)
\*   "threwLate"  sendToAppsScript, page.cookies or saveCookies threw (after 475)
\*   "ok"         the try block ran to its end
TickOutcomes == {"expired", "threwEarly", "threwLate", "ok"}
\* page.reload resolved, or it rejected and restartBrowser ran.
Recoveries == {"reloaded", "restarted"}

countFrame == <<main, browser, page, session, sinkUrl, isLoggedIn, snapVars,
                sinkVars, loginAlertSent, timerVars, cookieFile, now, pc, mpc,
                runVars, alertVars, out>>

\* Line 475, `scrapeErrors = 0`, runs once the extraction has resolved.
ErrorsInTry(n, outcome) == IF outcome \in {"threwLate", "ok"} THEN 0 ELSE n
\* The tick entered its catch block.
Caught(outcome) == outcome \in {"threwEarly", "threwLate"}
\* Lines 499-514 entered with the counter at n: `scrapeErrors++`, and once 5
\* is reached the reload, which zeroes the counter only when it resolves.
ErrorsInCatch(n, recovery) ==
    IF ShouldReload(n + 1) /\ recovery = "reloaded" THEN 0 ELSE n + 1
\* scrapeErrors when the tick has ended.
ErrorsAfter(n, outcome, recovery) ==
    IF Caught(outcome)
    THEN ErrorsInCatch(ErrorsInTry(n, outcome), recovery)
    ELSE ErrorsInTry(n, outcome)
\* The tick attempted the soft reload.
Escalated(n, outcome) == Caught(outcome) /\ ShouldReload(ErrorsInTry(n, outcome) + 1)

\* ret.failed counts the ticks that ended in an exception since the last
\* tick that ran to its end or the last reload or restart; ret.late counts
\* those that threw after the extraction, one after another.
InitCount ==
    /\ MonitorInit
    /\ fn = "doScrape"
    /\ arg = <<>>
    /\ ret = [failed |-> 0, late |-> 0, last |-> "none"]

TickRuns(outcome, recovery) ==
    /\ fn = "doScrape"
    /\ totalScrapes < MaxScrapes
    /\ totalScrapes' = totalScrapes + 1
    /\ scrapeErrors' = ErrorsAfter(scrapeErrors, outcome, recovery)
    /\ ret' = [failed |-> IF outcome = "ok" \/ Escalated(scrapeErrors, outcome)
                          THEN 0
                          ELSE IF Caught(outcome) THEN ret.failed + 1 ELSE ret.failed,
               late |-> IF outcome = "threwLate" THEN ret.late + 1 ELSE 0,
               last |-> outcome]
    /\ UNCHANGED <<countFrame, fn, arg>>

NextCount == \E outcome \in TickOutcomes, recovery \in Recoveries : TickRuns(outcome, recovery)
SpecCount == InitCount /\ [][NextCount]_vars

\* ======================================================================
\* Properties
\* ======================================================================
Times == StartTime..MaxTime
InFlight == {t \in Slots : pc[t] # "idle"}
\* The step is tick t entering the catch block of doScrape.
Threw(t) ==
    \/ Throw(t)
    \/ \E items \in Snapshots, at \in Times : ScrapeSinkThrows(t, items, at)
\* The step is tick t calling sendToAppsScript(items) at time at.
SinkCall(t, items, at) ==
    /\ items # <<>>
    /\ ScrapeOk(t, items, at) \/ ScrapeSinkThrows(t, items, at)
\* The call issued a request.
Requested(o) == o.sink \in {"sent", "resent"}
\* The step is tick t finding the session Expired.
FoundExpired(t) == CheckLogin(t) /\ pc'[t] = "idle"
RestartPcs == {"teardown", "setup"}

\* C1: no two invocations of doScrape are ever in progress at the same time.
C1_NoConcurrentTicks == Cardinality(InFlight) <= 1

\* C2: scrapeErrors is 0 right after every tick that completes successfully
\* and right after every escalation action, the soft reload and the hard
\* restart, whether the action succeeded or failed.
C2_ErrorsZeroAfterSuccessOrEscalation ==
    [][\A t \in Slots :
         (CookiesOk(t) \/ ReloadOk(t) \/ ReloadFail(t) \/ SetupOk(t) \/ SetupFail(t))
            => scrapeErrors' = 0]_vars

\* C3: when the soft reload throws, restartBrowser is entered once, the
\* periodic timer is cleared while the restart runs, and it is armed again
\* when the restart ends.
C3_TimerRearmedAfterRestart ==
    [][\A t \in Slots :
         /\ (pc[t] \notin RestartPcs /\ pc'[t] \in RestartPcs) => ReloadFail(t)
         /\ pc[t] \in RestartPcs => scrapeInterval \notin activeIntervals
         /\ (SetupOk(t) \/ SetupFail(t)) => scrapeInterval' \in activeIntervals']_vars

\* C4: after the teardown of a hard restart the page is opened on a new
\* browser instance: no operation is awaited on the closed browser handle.
C4_NoOperationOnClosedBrowser ==
    \A t \in Slots : pc[t] = "setup" => browser # "closed"

C6_FailedTickLeavesSnapshot ==
    [][\A t \in Slots :
         Throw(t) => /\ ~tickWrote[t]
                     /\ UNCHANGED snapVars
                     /\ scrapeErrors' = scrapeErrors + 1]_vars

\* C7: when two consecutive ticks both find the session Expired, the second
\* does not invoke the alert sink (so the ticks between two Authenticated
\* ticks issue at most one session-expired alert).
C7_NoSecondExpiryAlert ==
    [][\A t \in Slots :
         (prevExpired /\ FoundExpired(t)) => out'.alert = "none"]_vars

\* C8: from the moment the session is first observed not authenticated until
\* it is next observed Authenticated, at most one missing-login alert is sent
\* (startup check and ticks together), and a magic-link attempt that leaves
\* the session Expired does not re-arm the latch.
C8_OneMissingLoginAlert ==
    [][/\ alerted => out'.alert \notin {"startup", "expired"}
       /\ (MagicCheck /\ ~isLoggedIn') => loginAlertSent' = loginAlertSent]_vars

\* C9: with the sink configured, sendToAppsScript issues a request iff the
\* fingerprint differs from lastSentHash or at least SHEET_SEND_INTERVAL has
\* passed since lastSheetSendTimestamp; without a request lastSentHash,
\* lastSheetSendTimestamp and lastSendTime are unchanged.
SendDue(items, at) ==
    \/ HashOf(items) # lastSentHash
    \/ at - lastSheetSendTimestamp >= SHEET_SEND_INTERVAL
C9_RequestIffChangedOrDue ==
    [][\A t \in Slots, items \in Snapshots, at \in Times :
         (SinkCall(t, items, at) /\ sinkUrl # "unset")
            => /\ Requested(out') <=> SendDue(items, at)
               /\ ~Requested(out') => UNCHANGED sinkVars]_vars

\* C10: with the sink configured, the first tick with a non-empty snapshot
\* issues a sink call; a later tick with the fingerprint last sent issues
\* none while less than the interval has passed since the last send attempt,
\* and exactly one at or after the interval, which restarts the throttle.
SameAsLastSent(items) == HashOf(items) = lastSentHash
C10_FirstSendThenThrottle ==
    [][\A t \in Slots, items \in Snapshots, at \in Times :
         (SinkCall(t, items, at) /\ sinkUrl # "unset")
            => /\ lastSendTime = 0 => out'.sink = "sent"
               /\ (SameAsLastSent(items) /\ at - lastSheetSendTimestamp < SHEET_SEND_INTERVAL)
                     => (out'.sink = "throttled" /\ UNCHANGED sinkVars)
               /\ (SameAsLastSent(items) /\ at - lastSheetSendTimestamp >= SHEET_SEND_INTERVAL)
                     => /\ out'.sink = "resent"
                        /\ lastSentHash' = lastSentHash
                        /\ lastSheetSendTimestamp' = at
                        /\ lastSendTime' = at]_vars

\* C11: a tick whose extraction returns the empty list makes no call of the
\* tabular sink and leaves lastSentHash, lastSheetSendTimestamp and
\* lastSendTime as they were, also when a non-empty snapshot was sent before.
C11_EmptySnapshotNotSent ==
    [][\A t \in Slots, at \in Times :
         ScrapeOk(t, <<>>, at) => (out'.sink = "none" /\ UNCHANGED sinkVars)]_vars
\* An empty extraction was just stored while the sink holds the fingerprint
\* of a non-empty snapshot.
C11_Witness ==
    \E t \in Slots :
       /\ pc[t] = "cookies"
       /\ lastItems = <<>>
       /\ out = NoOut
       /\ lastSentHash \in {HashOf(<<Pizza>>), HashOf(<<Cola, Pizza>>)}

\* C12: two record lists get the same fingerprint when they hold the same
\* multiset of (type, name) pairs, in whatever order, and different
\* fingerprints when their multisets differ.
PairsOf(items) == {<<items[k].type, items[k].name>> : k \in DOMAIN items}
PairCount(items, p) ==
    Cardinality({k \in DOMAIN items : <<items[k].type, items[k].name>> = p})
SamePairs(a, b) ==
    \A p \in PairsOf(a) \cup PairsOf(b) : PairCount(a, p) = PairCount(b, p)
C12_FingerprintIsMultisetOfPairs ==
    (fn = "sendToAppsScript" /\ ret # <<>>)
        => ((ret[1] = ret[2]) <=> SamePairs(arg[1], arg[2]))
\* Two different lists with the same pairs got one fingerprint.
C12_Witness ==
    /\ fn = "sendToAppsScript"
    /\ ret # <<>>
    /\ arg[1] # arg[2]
    /\ Len(arg[1]) = 2
    /\ ret[1] = ret[2]

\* C13: checkLoginStatus answers not-authenticated whenever the URL holds a
\* login marker, the document shows one, or the inspection throws; it never
\* throws to its caller and it changes no state of the monitor.
C13_LoginCheckFailsClosed ==
    [][LoginCall =>
         /\ ~ret'.threw
         /\ (\/ \E k \in DOMAIN arg.url : arg.url[k] \in {"/login", "/auth"}
             \/ arg.dom # {}
             \/ arg.page \in {"null", "closed"}
             \/ arg.evaluateRejects) => ~ret'.value
         /\ UNCHANGED monitorVars]_vars
\* The inspection of a page that shows no login marker threw, and the answer
\* was not-authenticated.
C13_Witness ==
    /\ fn = "checkLoginStatus"
    /\ ret # <<>>
    /\ arg.page = "open"
    /\ arg.url = <<"/menu">>
    /\ arg.dom = {}
    /\ arg.evaluateRejects
    /\ ~ret.value

\* C14: every exception raised during a tick, those of the soft reload and of
\* the hard restart included, is caught inside the tick: the promise doScrape
\* returned never rejects, and when a tick has ended a timer is armed that
\* will run a further tick.
\* The step in which restartBrowser throws out of the catch block of doScrape
\* (line 512), which rejects the promise doScrape returned.
Rejects(t) == SetupFail(t)
TickEnds(t) == pc[t] # "idle" /\ pc'[t] = "idle"
C14_TickContainsExceptions ==
    [][\A t \in Slots :
         /\ ~Rejects(t)
         /\ TickEnds(t) => (scrapeInterval' \in activeIntervals' \/ timeouts' > 0)]_vars

\* C15: a failure of a sink call, such as an exception thrown while the
\* tabular request is built, never changes scrapeErrors: the counter, set to 0
\* by the extraction that preceded the call, is 0 after the call as well.
C15_SinkFailureNotCounted ==
    [][\A t \in Slots, items \in Snapshots, at \in Times :
         (SinkCall(t, items, at) /\ out'.sink = "threw") => scrapeErrors' = 0]_vars

\* C16: a tick whose login check answers not-authenticated records
\* isLoggedIn = false and ends there: no materialization, extraction, sink
\* call or cookie save, and lastItems, lastScrapeTime, scrapeErrors,
\* lastSentHash, lastSheetSendTimestamp and the cookie file are as before the
\* tick. (A check on a page that shows the login always answers so.)
ExpiredFrame == <<lastItems, lastScrapeTime, scrapeErrors, lastSentHash,
                  lastSheetSendTimestamp, cookieFile>>
C17_ScrollStepsCapped ==
    [](ret.steps <= 25) /\ <>(ret.at \in {"done", "threw"})
\* A call that ran to the cap has returned.
C17_Witness == ret.at = "done" /\ ret.steps = 25 /\ ret.i = 25

\* C18 (as claimed): when scrollToLoadAll returns, the scroll position of the
\* scrolled region is the one it had when the call began.
C18_ScrollPositionRestored == ret.at = "done" => ret.scrollTop = arg.origin
\* C18 (amended): when scrollToLoadAll returns, however its loop ended, the
\* scroll position of the scrolled region is 0, the top, whatever it was when
\* the call began.
C18_ScrollPositionAtTop == ret.at = "done" => ret.scrollTop = 0
\* A call that began one step down returned after early convergence.
C18_Witness ==
    /\ ret.at = "done"
    /\ arg.origin # 0
    /\ ret.steps < ScrollCap
    /\ ret.sameCount = SameLimit

\* C19: every record scrapeDisabledItems returns has a non-empty name, and
\* every option record a non-empty optionGroup.
C19_RecordsAreNamed ==
    ret.returned =>
        \A k \in 1..Len(ret.items) :
            /\ ret.items[k].name # <<>>
            /\ ret.items[k].type = "option" => ret.items[k].optionGroup # <<>>

\* C20 (as claimed): once the monitor runs, isLoggedIn goes from false to
\* true only in the magic-link flow; a periodic tick never does it.
C20_OnlyMagicLinkAuthenticates ==
    [][(main = "running" /\ ~isLoggedIn /\ isLoggedIn') => MagicCheck]_vars
\* C20 (amended): isLoggedIn goes from false to true only in a step that has
\* just got an authenticated result from checkLoginStatus on a usable page:
\* the startup check, the magic-link flow, or the login check of a periodic
\* tick.
C20_OnlyLoginCheckAuthenticates ==
    [][(~isLoggedIn /\ isLoggedIn') =>
          /\ MainCheck \/ MagicCheck \/ \E t \in Slots : CheckLogin(t)
          /\ session = "auth"
          /\ PageUsable]_vars
\* The second tick has found the session authenticated after the first one
\* ended on the expired branch (it neither scraped nor failed), with no
\* magic-link request in between.
C20_Witness ==
    /\ totalScrapes = 2
    /\ pc[1] = "banner"
    /\ isLoggedIn
    /\ authRequests = 0
    /\ scrapeErrors = 0
    /\ lastScrapeTime = 0
    /\ cookieFile = "none"

\* C21: no page operation or cookie write of an HTTP handler is in flight
\* while a tick awaits a page operation or its cookie save.
C21_HandlersSerializedWithTick == mpc = "idle" \/ AllIdle

\* C22: a call of sendToAppsScript that is neither skipped nor throttled sets
\* lastSentHash to the new fingerprint and lastSheetSendTimestamp and
\* lastSendTime to the time of the call, also when building the request then
\* throws; no response, whether 2xx, another status or an error, changes them.
C22_SendAttemptAdvancesThrottle ==
    [][/\ \A items \in Snapshots, at \in Times :
            (SinkInvoke(items, at) /\ ret'.last \notin {"skipped", "throttled"})
               => /\ lastSentHash' = HashOf(items)
                  /\ lastSheetSendTimestamp' = at
                  /\ lastSendTime' = at
       /\ \A o \in Responses : SinkRespond(o) => UNCHANGED sinkVars]_vars
\* The only request issued ended in an error and the three variables hold
\* what the call wrote.
C22_Witness ==
    /\ ret.settled = "error"
    /\ ret.calls = 1
    /\ ret.pending = 0
    /\ lastSentHash = HashOf(arg.items)
    /\ lastSheetSendTimestamp = arg.at
    /\ lastSendTime = arg.at

\* C23: the stored cookies, when there are any, are on each new page before
\* any navigation on that page.
C23_CookiesBeforeNavigation == fn = "setupPage" => ~ret.bare

\* C24: a tick awaits scrollToLoadAll exactly when its login check answered
\* authenticated and the scrape counter, read after the cookie banner, is a
\* multiple of 5; any other authenticated tick goes on to the extraction at
\* once; and a tick moves only from the check to the materialization, from
\* there to the extraction with its reconciliation, then to the cookie save.
C24_ScrollEveryFifthTick ==
    [][\A t \in Slots :
         /\ (pc[t] # "banner" /\ pc'[t] = "banner") <=> (CheckLogin(t) /\ isLoggedIn')
         /\ (pc[t] # "scroll" /\ pc'[t] = "scroll")
               <=> (pc[t] = "banner" /\ pc'[t] # "banner" /\ totalScrapes % 5 = 0)
         /\ (pc[t] # "scrape" /\ pc'[t] = "scrape")
               <=> \/ pc[t] = "banner" /\ pc'[t] # "banner" /\ totalScrapes % 5 # 0
                   \/ ScrollOk(t)
         /\ (pc[t] # "cookies" /\ pc'[t] = "cookies")
               <=> (pc[t] = "scrape" /\ lastScrapeTime' = now' /\ scrapeErrors' = 0
                      /\ \E items \in Snapshots : /\ lastItems' = items
                                                  /\ ScrapeOk(t, items, now'))
         /\ CookiesOk(t) => pc[t] = "cookies"]_vars
\* The fifth tick found the session authenticated and awaits scrollToLoadAll.
C24_Witness ==
    \E t \in Slots : pc[t] = "scroll" /\ totalScrapes = 5 /\ isLoggedIn

\* C25: an iteration is unchanged when the height it measures equals the one
\* compared before it (lastHeight, 0 before the first iteration). The loop
\* goes on only while fewer than three iterations in a row were unchanged,
\* it ends only after three unchanged iterations in a row or at the step
\* cap, and sameCount is the number of unchanged iterations in a row, so 0
\* after a change of height.
RECURSIVE Unchanged(_)
Unchanged(hs) ==
    IF Len(hs) < 2 \/ hs[Len(hs)] # hs[Len(hs) - 1] THEN 0
    ELSE 1 + Unchanged(SubSeq(hs, 1, Len(hs) - 1))
C25_StopsAfterThreeEqualHeights ==
    /\ ret.at = "loop" => Unchanged(ret.heights) < 3
    /\ ret.at \in {"top", "done"} => (Unchanged(ret.heights) = 3 \/ ret.steps = 25)
    /\ ret.at # "threw" => ret.sameCount = Unchanged(ret.heights)
\* The loop ended at its fifth step on the fourth equal height in a row: the
\* first height differed and reset the count.
C25_Witness ==
    /\ ret.at = "done"
    /\ ret.steps = 5
    /\ ret.heights = <<2, 2, 2, 2>>

\* C26: the category of every record is the trimmed text of the nearest
\* header row before the row it came from, Uncategorized when there is none,
\* and no record comes from a header row.
RECURSIVE NearestHeader(_, _)
NearestHeader(headers, j) ==
    IF j = 0 THEN Uncategorized
    ELSE IF headers[j] # Absent THEN Trim(headers[j])
    ELSE NearestHeader(headers, j - 1)
LastRecords(type) ==
    {k \in 1..Len(ret.items) : ret.from[k] = ret.n /\ ret.items[k].type = type}
SpansOfKind(kind) ==
    {k \in 1..Len(ret.last.spans) : ret.last.spans[k].kind = kind}
ChoiceSpans ==
    IF SpansOfKind("disabled") # {} THEN SpansOfKind("disabled")
    ELSE SpansOfKind("jQyrIl")
\* The name of span k, trimmed and without its trailing comma, is not empty.
NamedSpan(k) == OptionName(ret.last.spans[k]) # <<>>
TagsRespected ==
    /\ Cardinality(LastRecords("item")) = IF "DISABLED" \in ret.last.tags THEN 1 ELSE 0
    /\ "DISABLED CHOICE (1)" \notin ret.last.tags => LastRecords("option") = {}
    /\ \A k \in 1..Len(ret.items) :
          /\ ret.items[k].name # Absent
          /\ ret.items[k].type = "option" => ret.items[k].optionGroup # Absent

\* C27 (as claimed): a row with the DISABLED tag gives exactly one item; a row
\* with a DISABLED CHOICE tag gives one option for every disabled-choice span
\* in it, the jQyrIl spans counting only when no span has the disabled
\* attribute; a row with neither tag gives nothing; an absent element never
\* shows in a record.
C27_OneOptionPerChoiceSpan ==
    /\ TagsRespected
    /\ "DISABLED CHOICE (1)" \in ret.last.tags
          => Cardinality(LastRecords("option")) = Cardinality(ChoiceSpans)
\* C27 (amended): the same, but a row with a DISABLED CHOICE tag gives one
\* option for every disabled-choice span whose cleaned name is not empty, and
\* none for a span whose cleaned name is empty.
C27_OneOptionPerNamedChoiceSpan ==
    /\ TagsRespected
    /\ "DISABLED CHOICE (1)" \in ret.last.tags
          => Cardinality(LastRecords("option"))
                = Cardinality({k \in ChoiceSpans : NamedSpan(k)})
\* A row with two disabled spans, one of them a lone comma, gave one option.
C27_Witness ==
    /\ ret.returned
    /\ "DISABLED CHOICE (1)" \in ret.last.tags
    /\ Cardinality(SpansOfKind("disabled")) = 2
    /\ Cardinality(LastRecords("option")) = 1


\* C30: at most one interval timer is armed at any time and scrapeInterval is
\* its id; and when restartBrowser begins no first-run one-shot is still
\* pending (a pending one is never cancelled, so it would start a tick after
\* the restart began).
C30_OneIntervalNoStaleOneShot ==
    [][/\ Cardinality(activeIntervals') <= 1
       /\ activeIntervals' \subseteq {scrapeInterval'}
       /\ \A t \in Slots : ReloadFail(t) => timeouts = 0]_vars


\* The place of a step of the SIGTERM handler in the order of its source.
StepRank(step) ==
    CASE step = "clearInterval" -> 1
      [] step = "page.close" -> 2
      [] step = "browser.close" -> 3
      [] step = "exited" -> 4

PostsTo(ps, c) == Cardinality({i \in 1..Len(ps) : ps[i] = c})
\* Recipient c is in the list, n times.
StoredTimes(list, c) == Cardinality({i \in 1..Len(list) : list[i] = c})

\* C29: a call of sendWhatsAppAlert with the credentials set leaves a
\* readable contacts file as it is, and what it posts follows the file as it
\* stands during that call: one POST for each stored entry that is active
\* with a chatId, none for an entry that is inactive or has no chatId, none
\* for anyone not stored. With a credential unset it posts nothing and does
\* not touch the file.
C29_OnePostPerActiveRecipient ==
    [][(fn = "alert" /\ ret'.calls # ret.calls) =>
         IF arg.instance = "" \/ arg.token = ""
         THEN ret'.posts = <<>> /\ ret'.file = ret.file
         ELSE /\ ret.file \notin NoFile => ret'.file = ret.file
              /\ ret'.file \notin NoFile
              /\ \A i \in 1..Len(ret'.file) :
                   PostsTo(ret'.posts, ret'.file[i]) =
                     IF ret'.file[i].active /\ ret'.file[i].chatId # <<>>
                     THEN StoredTimes(ret'.file, ret'.file[i])
                     ELSE 0
              /\ \A k \in 1..Len(ret'.posts) :
                   StoredTimes(ret'.file, ret'.posts[k]) > 0]_vars

\* The second call posted to one recipient of two stored, the other being
\* switched off, after the first call had posted to both.
C29_Witness ==
    /\ fn = "alert"
    /\ ret.calls = 2
    /\ Len(ret.file) = 2
    /\ ret.before = 2
    /\ Len(ret.posts) = 1
    /\ \E i \in 1..2 : ~ret.file[i].active


\* C31: escalation is reached only by counting failed ticks in the catch
\* block, so a page that throws from some tick onward leads to a soft reload or
\* a hard restart exactly when each tick that runs its login check on the
\* broken page either counts as a failure or goes on to the reload.
C31_BrokenPageLeadsToEscalation ==
    [][\A t \in Slots :
         (~PageUsable /\ CheckLogin(t)) =>
             (scrapeErrors' > scrapeErrors \/ pc'[t] \in RestartPcs \cup {"reload"})]_vars


\* C32: at every tick boundary scrapeErrors is the number of ticks that ended
\* in an exception since the last tick that ran to its end or the last reload
\* or restart, a tick that threw after the extraction being one of them; so
\* after five ticks in a row that threw after the extraction the counter has
\* reached the threshold.
C32_ErrorsCountFailedTicks ==
    fn = "doScrape" =>
        /\ scrapeErrors = ret.failed
        /\ ret.late >= ErrorThreshold => scrapeErrors >= ErrorThreshold

====
